---- MODULE Spec2Model ----
(***************************************************************************)
(* A state-machine model of the address-book assistant in src/main.py:     *)
(* the session loop (CliApp), the dispatcher (AssistantBot), the validated *)
(* fields (Name, Phone, Birthday), Record and AddressBook.                 *)
(*                                                                         *)
(* Strings are sequences of one-character strings, so that the regular     *)
(* expressions and the date parser are computed on characters.  A literal  *)
(* piece of a message is kept as one symbol of the sequence.               *)
(***************************************************************************)
EXTENDS Integers, Sequences, FiniteSets, TLC

VARIABLES
    data,       \* AddressBook.data: insertion-ordered entries [key, value]
    paginator,  \* AddressBook._paginator: <<>> (None) or <<generator frame>>
    today,      \* datetime.now().date(), as [y, m, d]
    pc,         \* CliApp.run: "loop" while the while-loop runs, "done" after it
    command,    \* run's local `command` of the last line
    args,       \* run's local `args` of the last line
    result,     \* run's local `result` of the last line
    err,        \* the exception caught by run's `except Exception`, if any
    pages,      \* history: the pages taken in the current pass ([keys, rendered])
    passMods    \* history: the book changes since the current pass began ([kind, key])

vars == <<data, paginator, today, pc, command, args, result, err, pages, passMods>>

----------------------------------------------------------------------------
(* Bounds of the model *)

MaxRecords == 2
MaxPhones == 1

\* the phones one record holds at most in the sessions of SpecPhones
MaxStoredPhones == 3

\* the longest run of digits in the phone strings of SpecPhone
MaxDigits == 13

\* the records and the phones of one record at most in the sessions of SpecShow
MaxShowRecords == 1
MaxShowPhones == 2

----------------------------------------------------------------------------
(* Characters and strings *)

DigitChars == <<"0", "1", "2", "3", "4", "5", "6", "7", "8", "9">>

LowerChars == <<"a", "b", "c", "d", "e", "f", "g", "h", "i", "j", "k", "l", "m",
                "n", "o", "p", "q", "r", "s", "t", "u", "v", "w", "x", "y", "z">>

UpperChars == <<"A", "B", "C", "D", "E", "F", "G", "H", "I", "J", "K", "L", "M",
                "N", "O", "P", "Q", "R", "S", "T", "U", "V", "W", "X", "Y", "Z">>

Digits == {DigitChars[i] : i \in 1..10}

Letters == {LowerChars[i] : i \in 1..26} \cup {UpperChars[i] : i \in 1..26}

\* the value of each digit character
DigitValue == [c \in Digits |-> (CHOOSE i \in 1..10 : DigitChars[i] = c) - 1]

\* the lower-case letter of each upper-case letter
LowerCase ==
    [c \in {UpperChars[i] : i \in 1..26} |->
        LowerChars[CHOOSE i \in 1..26 : UpperChars[i] = c]]

IsDigit(c) == c \in Digits

IsLetter(c) == c \in Letters

IsSpace(c) == c = " "

DigitVal(c) == DigitValue[c]

LowerChar(c) == IF c \in DOMAIN LowerCase THEN LowerCase[c] ELSE c

\* str.lower()
Lower(s) == [i \in 1..Len(s) |-> LowerChar(s[i])]

\* n copies of the character c
Rep(c, n) == [i \in 1..n |-> c]

\* s[from ..] begins with n digits: the regular expression \d{n} at `from`
DigitsAt(s, from, n) ==
    /\ Len(s) >= from + n - 1
    /\ \A i \in from..(from + n - 1) : IsDigit(s[i])

CharAt(s, i, c) == Len(s) >= i /\ s[i] = c

RECURSIVE Flatten(_)
Flatten(ss) == IF ss = <<>> THEN <<>> ELSE Head(ss) \o Flatten(Tail(ss))

\* sep.join(ss)
RECURSIVE Join(_, _)
Join(sep, ss) ==
    IF ss = <<>> THEN <<>>
    ELSE IF Len(ss) = 1 THEN ss[1]
    ELSE ss[1] \o sep \o Join(sep, Tail(ss))

\* str(n) for a natural n
RECURSIVE IntStr(_)
IntStr(n) ==
    IF n < 10 THEN <<DigitChars[n + 1]>>
    ELSE IntStr(n \div 10) \o <<DigitChars[(n % 10) + 1]>>

\* n zero-padded to w digits
Pad(n, w) == LET s == IntStr(n) IN Rep("0", IF Len(s) < w THEN w - Len(s) ELSE 0) \o s

\* str.split(): the maximal runs of non-whitespace characters; the scan is at
\* s[i], word is the run being read and done the runs already read
RECURSIVE SplitFrom(_, _, _, _)
SplitFrom(s, i, word, done) ==
    IF i > Len(s) THEN (IF word = <<>> THEN done ELSE Append(done, word))
    ELSE IF IsSpace(s[i])
    THEN SplitFrom(s, i + 1, <<>>, IF word = <<>> THEN done ELSE Append(done, word))
    ELSE SplitFrom(s, i + 1, Append(word, s[i]), done)

Split(s) == SplitFrom(s, 1, <<>>, <<>>)

----------------------------------------------------------------------------
(* Calendar dates: datetime.date *)

Date(y, m, d) == [y |-> y, m |-> m, d |-> d]

IsLeap(y) == (y % 4 = 0 /\ y % 100 # 0) \/ y % 400 = 0

DaysInMonth(y, m) ==
    IF m = 2 THEN (IF IsLeap(y) THEN 29 ELSE 28)
    ELSE IF m \in {4, 6, 9, 11} THEN 30 ELSE 31

\* what the date constructor accepts (MINYEAR = 1, MAXYEAR = 9999)
ValidDate(y, m, d) ==
    /\ y >= 1 /\ y <= 9999
    /\ m >= 1 /\ m <= 12
    /\ d >= 1 /\ d <= DaysInMonth(y, m)

DateLT(a, b) ==
    \/ a.y < b.y
    \/ a.y = b.y /\ a.m < b.m
    \/ a.y = b.y /\ a.m = b.m /\ a.d < b.d

RECURSIVE DaysBeforeMonth(_, _)
DaysBeforeMonth(y, m) ==
    IF m = 1 THEN 0 ELSE DaysBeforeMonth(y, m - 1) + DaysInMonth(y, m - 1)

DaysBeforeYear(y) ==
    LET p == y - 1 IN p * 365 + (p \div 4) - (p \div 100) + (p \div 400)

\* date.toordinal()
Ordinal(a) == DaysBeforeYear(a.y) + DaysBeforeMonth(a.y, a.m) + a.d

\* str(date): YYYY-MM-DD
IsoFormat(a) == Pad(a.y, 4) \o <<"-">> \o Pad(a.m, 2) \o <<"-">> \o Pad(a.d, 2)

----------------------------------------------------------------------------
(* Values returned and exceptions raised *)

\* the value None
NoneVal == [none |-> TRUE, text |-> <<>>]

\* a str value
Str(t) == [none |-> FALSE, text |-> t]

NoRecord == [name |-> <<>>, phones |-> <<>>, birthday |-> <<>>]

\* a Record method that returned, leaving the record as rec
Done(rec) == [exc |-> "none", msg |-> <<>>, rec |-> rec]

\* a Record method that raised
Fail(exc, msg, rec) == [exc |-> exc, msg |-> msg, rec |-> rec]

\* the texts of the messages
MissingPrefix == "Invalid input, some info is missing: "
UnknownPrefix == "Sorry, no such command: "
ValuePrefix == "ValueError: "
DuplicateText ==
    <<"This name is already in your phonebook. If you want to change the phone number, type 'change'.If you want to add a phone number, type it after the name.">>
NotInBookText == <<"This person is not in your address book.">>
PhoneNotInListText == <<"The given phone is not in a list.">>
InvalidPhoneText == <<"Invalid phone format. Try +123456789012 or 1234567890.">>
InvalidNameText == <<"Name can contain only latin letters.">>
NoNameText == <<"The record must have a name.">>
FutureBirthdayText == <<"Birthday can't be in future.">>
BadFormatText ==
    <<"The format of your entry isn't right. Type in 'help' to see possible formats.">>

\* str(KeyError(s)) is repr(s)
Repr(s) == <<"'">> \o s \o <<"'">>

----------------------------------------------------------------------------
(* Field validation *)

\* match(r"\b[A-Za-z]+", value): a word boundary, then letters, at the start
NameMatch(value) == Len(value) >= 1 /\ IsLetter(value[1])

\* match(r"(\+?\d{12}|\d{10})", value): anchored at the start only
is_valid(value) ==
    \/ CharAt(value, 1, "+") /\ DigitsAt(value, 2, 12)
    \/ DigitsAt(value, 1, 12)
    \/ DigitsAt(value, 1, 10)

\* match(r"\d{2}\.\d{2}\.\d{4}", s): anchored at the start only
BirthdayMatch(s) ==
    /\ DigitsAt(s, 1, 2) /\ CharAt(s, 3, ".")
    /\ DigitsAt(s, 4, 2) /\ CharAt(s, 6, ".")
    /\ DigitsAt(s, 7, 4)

\* Birthday.verify_value: raises when the date is after today
BirthdayInFuture(value, now) == DateLT(now, value)

----------------------------------------------------------------------------
(* datetime.strptime(s, "%d.%m.%Y").date() *)

\* %d at the start: 3[0-1] | [1-2]\d | 0[1-9] | [1-9] | " "[1-9], of length len
DayAt(s, len) ==
    /\ Len(s) >= len
    /\ \/ len = 2 /\ s[1] = "3" /\ s[2] \in {"0", "1"}
       \/ len = 2 /\ s[1] \in {"1", "2"} /\ IsDigit(s[2])
       \/ len = 2 /\ s[1] \in {"0", " "} /\ IsDigit(s[2]) /\ s[2] # "0"
       \/ len = 1 /\ IsDigit(s[1]) /\ s[1] # "0"

\* %m at `from`: 1[0-2] | 0[1-9] | [1-9], of length len
MonthAt(s, from, len) ==
    /\ Len(s) >= from + len - 1
    /\ \/ len = 2 /\ s[from] = "1" /\ s[from + 1] \in {"0", "1", "2"}
       \/ len = 2 /\ s[from] = "0" /\ IsDigit(s[from + 1]) /\ s[from + 1] # "0"
       \/ len = 1 /\ IsDigit(s[from]) /\ s[from] # "0"

\* int() of the digits s[from .. from + len - 1], a leading blank skipped
RECURSIVE NumAt(_, _, _)
NumAt(s, from, len) ==
    IF len = 0 THEN 0
    ELSE LET c == s[from + len - 1]
         IN NumAt(s, from, len - 1) * 10 + (IF IsDigit(c) THEN DigitVal(c) ELSE 0)

strptime(s) ==
    LET fits == {f \in {1, 2} \X {1, 2} :
                    /\ DayAt(s, f[1]) /\ CharAt(s, f[1] + 1, ".")
                    /\ MonthAt(s, f[1] + 2, f[2]) /\ CharAt(s, f[1] + f[2] + 2, ".")
                    /\ DigitsAt(s, f[1] + f[2] + 3, 4)}
    IN IF fits = {}
       THEN [exc |-> "ValueError", msg |-> <<"time data does not match format '%d.%m.%Y'">>,
             date |-> Date(1, 1, 1)]
       ELSE LET f == CHOOSE g \in fits : TRUE
                d == NumAt(s, 1, f[1])
                m == NumAt(s, f[1] + 2, f[2])
                y == NumAt(s, f[1] + f[2] + 3, 4)
            IN IF Len(s) # f[1] + f[2] + 6
               THEN [exc |-> "ValueError", msg |-> <<"unconverted data remains">>,
                     date |-> Date(1, 1, 1)]
               ELSE IF ~ValidDate(y, m, d)
               THEN [exc |-> "ValueError", msg |-> <<"day or year is out of range">>,
                     date |-> Date(1, 1, 1)]
               ELSE [exc |-> "none", msg |-> <<>>, date |-> Date(y, m, d)]

----------------------------------------------------------------------------
(* Record *)

\* Record.__init__ as it would be if the name were stored without Name's check
RecordInit_unchecked(name) ==
    IF name = <<>>
    THEN Fail("ValueError", NoNameText, NoRecord)
    ELSE Done([name |-> name, phones |-> <<>>, birthday |-> <<>>])

\* Record.__init__
RecordInit(name) ==
    IF name = <<>>
    THEN Fail("ValueError", NoNameText, NoRecord)
    ELSE IF ~NameMatch(name)
    THEN Fail("ValueError", InvalidNameText, NoRecord)
    ELSE Done([name |-> name, phones |-> <<>>, birthday |-> <<>>])

\* add_phone as it would be if a new phone were put before the stored ones
add_phone_front(rec, phone) ==
    IF ~is_valid(phone)
    THEN Fail("ValueError", InvalidPhoneText, rec)
    ELSE Done([rec EXCEPT !.phones = <<phone>> \o @])

\* Record.add_phone
add_phone(rec, phone) ==
    IF ~is_valid(phone)
    THEN Fail("ValueError", InvalidPhoneText, rec)
    ELSE Done([rec EXCEPT !.phones = Append(@, phone)])

\* Record.find_phone: the index of the first stored phone equal to phone, 0 for None
find_phone(rec, phone) ==
    LET hits == {i \in 1..Len(rec.phones) : rec.phones[i] = phone}
    IN IF hits = {} THEN 0 ELSE CHOOSE i \in hits : \A j \in hits : i <= j

\* list.remove of the element at index i
RemoveAt(seq, i) == SubSeq(seq, 1, i - 1) \o SubSeq(seq, i + 1, Len(seq))

\* delete_phone as it would be if the last of the equal phones were removed
delete_phone_last(rec, phone) ==
    LET hits == {i \in 1..Len(rec.phones) : rec.phones[i] = phone}
    IN IF hits = {}
       THEN Fail("ValueError", PhoneNotInListText, rec)
       ELSE Done([rec EXCEPT !.phones =
                     RemoveAt(@, CHOOSE i \in hits : \A j \in hits : j <= i)])

\* delete_phone as it would be if a phone that is not stored were passed over
delete_phone_silent(rec, phone) ==
    LET i == find_phone(rec, phone)
    IN IF i # 0
       THEN Done([rec EXCEPT !.phones = RemoveAt(@, i)])
       ELSE Done(rec)

\* Record.delete_phone
delete_phone(rec, phone) ==
    LET i == find_phone(rec, phone)
    IN IF i # 0
       THEN Done([rec EXCEPT !.phones = RemoveAt(@, i)])
       ELSE Fail("ValueError", PhoneNotInListText, rec)

\* add_birthday as it would be if a birthday already set were kept
add_birthday_keep(rec, birthday, now) ==
    IF BirthdayInFuture(birthday, now)
    THEN Fail("ValueError", FutureBirthdayText, rec)
    ELSE IF rec.birthday # <<>> THEN Done(rec)
    ELSE Done([rec EXCEPT !.birthday = <<birthday>>])

\* Record.add_birthday
add_birthday(rec, birthday, now) ==
    IF BirthdayInFuture(birthday, now)
    THEN Fail("ValueError", FutureBirthdayText, rec)
    ELSE Done([rec EXCEPT !.birthday = <<birthday>>])

\* Record.count_days_to_birthday; date.replace raises when the day does not exist
count_days_to_birthday(rec, now) ==
    LET b == rec.birthday[1]
        this == Date(now.y, b.m, b.d)
        next == Date(now.y + 1, b.m, b.d)
        Days(n) == <<"there are ">> \o IntStr(n) \o <<" days to this person's birthday">>
    IN IF ~ValidDate(this.y, this.m, this.d)
       THEN [exc |-> "ValueError", msg |-> <<"day is out of range for month">>, text |-> <<>>]
       ELSE IF DateLT(now, this)
       THEN [exc |-> "none", msg |-> <<>>, text |-> Days(Ordinal(this) - Ordinal(now))]
       ELSE IF now = this
       THEN [exc |-> "none", msg |-> <<>>, text |-> <<"Today is this person's birthday!">>]
       ELSE IF ~ValidDate(next.y, next.m, next.d)
       THEN [exc |-> "ValueError", msg |-> <<"day is out of range for month">>, text |-> <<>>]
       ELSE [exc |-> "none", msg |-> <<>>, text |-> Days(Ordinal(next) - Ordinal(now))]

\* Record.__str__
RecordStr(rec, now) ==
    LET head == <<"Name: ">> \o rec.name \o <<", phones: ">> \o Join(<<", ">>, rec.phones)
    IN IF rec.birthday # <<>>
       THEN LET c == count_days_to_birthday(rec, now)
            IN [exc |-> c.exc, msg |-> c.msg,
                text |-> head \o <<", birthday: ">> \o IsoFormat(rec.birthday[1])
                              \o <<", ">> \o c.text]
       ELSE [exc |-> "none", msg |-> <<>>, text |-> head]

----------------------------------------------------------------------------
(* AddressBook: data is the dict, as its entries in insertion order *)

PAGE_SIZE == 2

Keys(d) == [i \in 1..Len(d) |-> d[i].key]

Values(d) == [i \in 1..Len(d) |-> d[i].value]

\* key in self.data (Name hashes and compares by its string value)
Contains(d, key) == \E i \in 1..Len(d) : d[i].key = key

IndexOf(d, key) == CHOOSE i \in 1..Len(d) : d[i].key = key

\* self.data[key], for a key that is present
GetItem(d, key) == d[IndexOf(d, key)].value

\* the record object stored under key, after a method changed it in place
Mutated(d, key, rec) == [d EXCEPT ![IndexOf(d, key)].value = rec]

\* add_record as it would be if a record of a present name replaced the stored one
add_record_overwrite(d, rec) ==
    IF ~Contains(d, rec.name)
    THEN [exc |-> "none", msg |-> <<>>,
          data |-> Append(d, [key |-> rec.name, value |-> rec])]
    ELSE [exc |-> "none", msg |-> <<>>, data |-> Mutated(d, rec.name, rec)]

\* add_record as it would be if a new record were put before the others
add_record_front(d, rec) ==
    IF ~Contains(d, rec.name)
    THEN [exc |-> "none", msg |-> <<>>,
          data |-> <<[key |-> rec.name, value |-> rec]>> \o d]
    ELSE [exc |-> "ValueError", msg |-> DuplicateText, data |-> d]

\* AddressBook.add_record
add_record(d, rec) ==
    IF ~Contains(d, rec.name)
    THEN [exc |-> "none", msg |-> <<>>,
          data |-> Append(d, [key |-> rec.name, value |-> rec])]
    ELSE [exc |-> "ValueError",
          msg |-> DuplicateText,
          data |-> d]

\* AddressBook.delete_record
delete_record(d, name) ==
    IF Contains(d, name)
    THEN [exc |-> "none", msg |-> <<>>, data |-> RemoveAt(d, IndexOf(d, name))]
    ELSE [exc |-> "KeyError", msg |-> Repr(NotInBookText),
          data |-> d]

\* AddressBook.iterator, a generator not yet started
NewIterator == [page_start |-> 0, page_end |-> 0]

\* next() of the generator: it resumes after its yield with page_start = page_end
\* and runs to the next yield, or leaves the loop
IteratorNext(d, frame) ==
    LET values == Values(d)
        page_start == frame.page_end
        page_end == IF page_start + PAGE_SIZE > Len(values)
                    THEN page_start + (Len(values) - page_start)
                    ELSE page_start + PAGE_SIZE
    IN IF page_start >= Len(values)
       THEN [stop |-> TRUE, frame |-> frame, page |-> <<>>]
       ELSE [stop |-> FALSE,
             frame |-> [page_start |-> page_start, page_end |-> page_end],
             page |-> SubSeq(values, page_start + 1, page_end)]

----------------------------------------------------------------------------
(* What a handler leaves behind: the book, the cursor, and either the value *)
(* it returned or the exception it raised.  page is show_record's           *)
(* page_content when a page was taken: the keys of its records, and whether *)
(* str() of every one of them returned.                                     *)

Returned(d, pg, ret) ==
    [data |-> d, paginator |-> pg, exc |-> "none", msg |-> <<>>, ret |-> ret, page |-> <<>>]

Raised(d, pg, exc, msg) ==
    [data |-> d, paginator |-> pg, exc |-> exc, msg |-> msg, ret |-> NoneVal, page |-> <<>>]

AllText == <<"a", "l", "l">>
PageText == <<"p", "a", "g", "e">>

EndOfBook == <<"You reached the end of the address book. Call this command again.">>
NoContacts == <<"You do not have any contacts yet.">>
NoSuchContact == <<"You don't have a contact with this name in your address book.">>

\* the str() of each record of recs in turn; the first that raises ends it
RECURSIVE StrAll(_, _, _)
StrAll(recs, now, ending) ==
    IF recs = <<>> THEN [exc |-> "none", msg |-> <<>>, lines |-> <<>>]
    ELSE LET r == RecordStr(recs[1], now)
         IN IF r.exc # "none" THEN [exc |-> r.exc, msg |-> r.msg, lines |-> <<>>]
            ELSE LET rest == StrAll(Tail(recs), now, ending)
                 IN [exc |-> rest.exc, msg |-> rest.msg,
                     lines |-> <<r.text \o ending>> \o rest.lines]

\* show_record as it would be if a name that is not a key were looked up with
\* data[name], and an empty book were an error of `show all`
show_record_lookup(d, pg, now, name) ==
    IF name = AllText
    THEN IF d # <<>>
         THEN LET r == StrAll(Values(d), now, <<"\n">>)
              IN IF r.exc # "none" THEN Raised(d, pg, r.exc, r.msg)
                 ELSE Returned(d, pg, Str(Flatten(r.lines)))
         ELSE Raised(d, pg, "ValueError", NoContacts)
    ELSE IF name = PageText
    THEN LET n == IteratorNext(d, IF pg = <<>> THEN NewIterator ELSE pg[1])
         IN IF n.stop
            THEN Returned(d, <<>>, Str(EndOfBook))
            ELSE LET r == StrAll(n.page, now, <<>>)
                     keys == [i \in 1..Len(n.page) |-> n.page[i].name]
                 IN IF r.exc # "none"
                    THEN [Raised(d, <<n.frame>>, r.exc, r.msg)
                             EXCEPT !.page = <<[keys |-> keys, rendered |-> FALSE]>>]
                    ELSE [Returned(d, <<n.frame>>, Str(Join(<<"\n">>, r.lines)))
                             EXCEPT !.page = <<[keys |-> keys, rendered |-> TRUE]>>]
    ELSE IF Contains(d, name)
    THEN LET r == RecordStr(GetItem(d, name), now)
         IN IF r.exc # "none" THEN Raised(d, pg, r.exc, r.msg)
            ELSE Returned(d, pg, Str(r.text))
    ELSE Raised(d, pg, "KeyError", Repr(name))

\* AddressBook.show_record
show_record(d, pg, now, name) ==
    IF name = AllText
    THEN IF d # <<>>
         THEN LET r == StrAll(Values(d), now, <<"\n">>)
              IN IF r.exc # "none" THEN Raised(d, pg, r.exc, r.msg)
                 ELSE Returned(d, pg, Str(Flatten(r.lines)))
         ELSE Returned(d, pg, Str(NoContacts))
    ELSE IF name = PageText
    THEN LET n == IteratorNext(d, IF pg = <<>> THEN NewIterator ELSE pg[1])
         IN IF n.stop
            THEN Returned(d, <<>>, Str(EndOfBook))
            ELSE LET r == StrAll(n.page, now, <<>>)
                     keys == [i \in 1..Len(n.page) |-> n.page[i].name]
                 IN IF r.exc # "none"
                    THEN [Raised(d, <<n.frame>>, r.exc, r.msg)
                             EXCEPT !.page = <<[keys |-> keys, rendered |-> FALSE]>>]
                    ELSE [Returned(d, <<n.frame>>, Str(Join(<<"\n">>, r.lines)))
                             EXCEPT !.page = <<[keys |-> keys, rendered |-> TRUE]>>]
    ELSE IF Contains(d, name)
    THEN LET r == RecordStr(GetItem(d, name), now)
         IN IF r.exc # "none" THEN Raised(d, pg, r.exc, r.msg)
            ELSE Returned(d, pg, Str(r.text))
    ELSE Returned(d, pg, Str(NoSuchContact))

----------------------------------------------------------------------------
(* AssistantBot *)

\* input_error as it would be without its `except KeyError` clause
input_error_no_keyerror(o) ==
    IF o.exc = "TypeError"
    THEN [o EXCEPT !.exc = "none", !.msg = <<>>,
                   !.ret = Str(<<MissingPrefix>> \o o.msg)]
    ELSE IF o.exc = "ValueError"
    THEN [o EXCEPT !.exc = "none", !.msg = <<>>,
                   !.ret = Str(<<ValuePrefix>> \o o.msg)]
    ELSE o

\* AssistantBot.input_error.exception_handler: three kinds are turned into text
input_error(o) ==
    IF o.exc = "TypeError"
    THEN [o EXCEPT !.exc = "none", !.msg = <<>>,
                   !.ret = Str(<<MissingPrefix>> \o o.msg)]
    ELSE IF o.exc = "KeyError"
    THEN [o EXCEPT !.exc = "none", !.msg = <<>>,
                   !.ret = Str(<<UnknownPrefix>> \o o.msg)]
    ELSE IF o.exc = "ValueError"
    THEN [o EXCEPT !.exc = "none", !.msg = <<>>,
                   !.ret = Str(<<ValuePrefix>> \o o.msg)]
    ELSE o

HelpText == <<"To add a new person type: 'add name phone birthday'. ...">>
HelloText == <<"How can I help you?">>

\* AssistantBot.help
help(d, pg, as) ==
    input_error(IF as # <<>>
                THEN Raised(d, pg, "TypeError", <<"help() takes 0 positional arguments">>)
                ELSE Returned(d, pg, Str(HelpText)))

\* AssistantBot.hello
hello(d, pg, as) ==
    input_error(IF as # <<>>
                THEN Raised(d, pg, "TypeError", <<"hello() takes 0 positional arguments">>)
                ELSE Returned(d, pg, Str(HelloText)))

\* AssistantBot.add with three arguments (lines 139-146)
add3(d, pg, now, as) ==
    LET r0 == RecordInit(as[1])
        r1 == add_phone(r0.rec, as[2])
        bd == strptime(as[3])
        r2 == add_birthday(r1.rec, bd.date, now)
        ar == add_record(d, r2.rec)
    IN IF r0.exc # "none" THEN Raised(d, pg, r0.exc, r0.msg)
       ELSE IF r1.exc # "none" THEN Raised(d, pg, r1.exc, r1.msg)
       ELSE IF bd.exc # "none" THEN Raised(d, pg, bd.exc, bd.msg)
       ELSE IF r2.exc # "none" THEN Raised(d, pg, r2.exc, r2.msg)
       ELSE IF ar.exc # "none" THEN Raised(d, pg, ar.exc, ar.msg)
       ELSE Returned(ar.data, pg, NoneVal)

\* the second half of add with two arguments (lines 156-164), on the record
\* stored under name in d
add2_token(d, pg, now, name, token) ==
    LET record == GetItem(d, name)
    IN IF is_valid(token)
       THEN LET r == add_phone(record, token)
            IN IF r.exc # "none" THEN Raised(d, pg, r.exc, r.msg)
               ELSE Returned(Mutated(d, name, r.rec), pg, NoneVal)
       ELSE IF BirthdayMatch(token)
       THEN LET bd == strptime(token)
                r == add_birthday(record, bd.date, now)
            IN IF bd.exc # "none" THEN Raised(d, pg, bd.exc, bd.msg)
               ELSE IF r.exc # "none" THEN Raised(d, pg, r.exc, r.msg)
               ELSE Returned(Mutated(d, name, r.rec), pg, NoneVal)
       ELSE Raised(d, pg, "ValueError", BadFormatText)

\* add with two arguments as it would be if the record of a new name were stored
\* only once the second argument had been accepted
add2_classify_first(d, pg, now, as) ==
    IF Contains(d, as[1])
    THEN add2_token(d, pg, now, as[1], as[2])
    ELSE LET r0 == RecordInit(as[1])
             ar == add_record(d, r0.rec)
             o == add2_token(ar.data, pg, now, as[1], as[2])
         IN IF r0.exc # "none" THEN Raised(d, pg, r0.exc, r0.msg)
            ELSE IF ar.exc # "none" THEN Raised(d, pg, ar.exc, ar.msg)
            ELSE IF o.exc # "none" THEN Raised(d, pg, o.exc, o.msg)
            ELSE o

\* AssistantBot.add with two arguments (lines 148-164)
add2(d, pg, now, as) ==
    IF Contains(d, as[1])
    THEN add2_token(d, pg, now, as[1], as[2])
    ELSE LET r0 == RecordInit(as[1])
             ar == add_record(d, r0.rec)
         IN IF r0.exc # "none" THEN Raised(d, pg, r0.exc, r0.msg)
            ELSE IF ar.exc # "none" THEN Raised(d, pg, ar.exc, ar.msg)
            ELSE add2_token(ar.data, pg, now, as[1], as[2])

\* AssistantBot.add with one argument (lines 166-169)
add1(d, pg, as) ==
    LET r0 == RecordInit(as[1])
        ar == add_record(d, r0.rec)
    IN IF r0.exc # "none" THEN Raised(d, pg, r0.exc, r0.msg)
       ELSE IF ar.exc # "none" THEN Raised(d, pg, ar.exc, ar.msg)
       ELSE Returned(ar.data, pg, NoneVal)

\* AssistantBot.add: no branch for any other count, the method returns None
add(d, pg, now, as) ==
    input_error(IF Len(as) = 3 THEN add3(d, pg, now, as)
                ELSE IF Len(as) = 2 THEN add2(d, pg, now, as)
                ELSE IF Len(as) = 1 THEN add1(d, pg, as)
                ELSE Returned(d, pg, NoneVal))

\* change as it would be if a refused new phone put the old one back
change_rollback(d, pg, as) ==
    input_error(
        IF Len(as) # 3
        THEN Raised(d, pg, "TypeError", <<"change() takes 3 positional arguments">>)
        ELSE IF ~Contains(d, as[1])
        THEN Raised(d, pg, "KeyError", Repr(as[1]))
        ELSE LET del == delete_phone(GetItem(d, as[1]), as[2])
                 new == add_phone(del.rec, as[3])
             IN IF del.exc # "none" THEN Raised(d, pg, del.exc, del.msg)
                ELSE IF new.exc # "none"
                THEN Raised(d, pg, new.exc, new.msg)
                ELSE Returned(Mutated(d, as[1], new.rec), pg, NoneVal))

\* AssistantBot.change
change(d, pg, as) ==
    input_error(
        IF Len(as) # 3
        THEN Raised(d, pg, "TypeError", <<"change() takes 3 positional arguments">>)
        ELSE IF ~Contains(d, as[1])
        THEN Raised(d, pg, "KeyError", Repr(as[1]))
        ELSE LET del == delete_phone(GetItem(d, as[1]), as[2])
                 new == add_phone(del.rec, as[3])
             IN IF del.exc # "none" THEN Raised(d, pg, del.exc, del.msg)
                ELSE IF new.exc # "none"
                THEN Raised(Mutated(d, as[1], del.rec), pg, new.exc, new.msg)
                ELSE Returned(Mutated(d, as[1], new.rec), pg, NoneVal))

\* AssistantBot.show
show(d, pg, now, as) ==
    input_error(
        IF Len(as) # 1
        THEN Raised(d, pg, "TypeError", <<"show() takes 1 positional argument">>)
        ELSE show_record(d, pg, now, as[1]))

\* AssistantBot.delete: not decorated, what it raises goes on to its caller
delete(d, pg, as) ==
    IF Len(as) \notin {1, 2}
    THEN Raised(d, pg, "TypeError", <<"delete() takes from 1 to 2 positional arguments">>)
    ELSE IF Len(as) = 2 /\ as[2] # <<>>
    THEN IF ~Contains(d, as[1])
         THEN Raised(d, pg, "KeyError", Repr(as[1]))
         ELSE LET r == delete_phone(GetItem(d, as[1]), as[2])
              IN IF r.exc # "none" THEN Raised(d, pg, r.exc, r.msg)
                 ELSE Returned(Mutated(d, as[1], r.rec), pg, NoneVal)
    ELSE LET r == delete_record(d, as[1])
         IN IF r.exc # "none" THEN Raised(d, pg, r.exc, r.msg)
            ELSE Returned(r.data, pg, NoneVal)

HelloWord == <<"h", "e", "l", "l", "o">>
AddWord == <<"a", "d", "d">>
DeleteWord == <<"d", "e", "l", "e", "t", "e">>
ChangeWord == <<"c", "h", "a", "n", "g", "e">>
ShowWord == <<"s", "h", "o", "w">>
HelpWord == <<"h", "e", "l", "p">>

\* AssistantBot.handle: the lookup in self.commands, then the call
handle(d, pg, now, cmd, as) ==
    input_error(
        IF cmd = HelloWord THEN hello(d, pg, as)
        ELSE IF cmd = AddWord THEN add(d, pg, now, as)
        ELSE IF cmd = DeleteWord THEN delete(d, pg, as)
        ELSE IF cmd = ChangeWord THEN change(d, pg, as)
        ELSE IF cmd = ShowWord THEN show(d, pg, now, as)
        ELSE IF cmd = HelpWord THEN help(d, pg, as)
        ELSE Raised(d, pg, "KeyError", Repr(cmd)))

----------------------------------------------------------------------------
(* CliApp *)

GoodbyeWord == <<"g", "o", "o", "d", "b", "y", "e">>
CloseWord == <<"c", "l", "o", "s", "e">>
ExitWord == <<"e", "x", "i", "t">>

StopWords == {GoodbyeWord, CloseWord, ExitWord}

\* parse_command as it would be if the command word were kept as it was typed
parse_command_as_typed(user_input) ==
    IF Len(user_input) = 0
    THEN [exc |-> "ValueError", msg |-> <<>>, command |-> <<>>, args |-> <<>>]
    ELSE LET words == Split(user_input)
         IN IF words = <<>>
            THEN [exc |-> "IndexError", msg |-> <<"list index out of range">>,
                  command |-> <<>>, args |-> <<>>]
            ELSE [exc |-> "none", msg |-> <<>>,
                  command |-> words[1], args |-> Tail(words)]

\* CliApp.parse_command
parse_command(user_input) ==
    IF Len(user_input) = 0
    THEN [exc |-> "ValueError", msg |-> <<>>, command |-> <<>>, args |-> <<>>]
    ELSE LET words == Split(user_input)
         IN IF words = <<>>
            THEN [exc |-> "IndexError", msg |-> <<"list index out of range">>,
                  command |-> <<>>, args |-> <<>>]
            ELSE [exc |-> "none", msg |-> <<>>,
                  command |-> Lower(words[1]), args |-> Tail(words)]

\* how a handled line changes the book, for the history of the pass
Mods(before, after) ==
    {[kind |-> "add", key |-> after[i].key] :
        i \in {j \in 1..Len(after) : ~Contains(before, after[j].key)}}
    \cup {[kind |-> "delete", key |-> before[i].key] :
            i \in {j \in 1..Len(before) : ~Contains(after, before[j].key)}}
    \cup {[kind |-> "edit", key |-> before[i].key] :
            i \in {j \in 1..Len(before) :
                      /\ Contains(after, before[j].key)
                      /\ GetItem(after, before[j].key) # before[j].value}}

\* a book of at most maxRecords records, each of at most maxPhones phones
WithinBounds(d, maxRecords, maxPhones) ==
    /\ Len(d) <= maxRecords
    /\ \A i \in 1..Len(d) : Len(d[i].value.phones) <= maxPhones

\* a book whose records hold at most maxPhones phones each
PhonesWithin(d, maxPhones) == \A i \in 1..Len(d) : Len(d[i].value.phones) <= maxPhones

\* the history of the pagination pass after a handled line
PassHistory(o) ==
    IF o.page # <<>>
    THEN /\ pages' = (IF paginator = <<>> THEN <<>> ELSE pages) \o o.page
         /\ passMods' = (IF paginator = <<>> THEN {} ELSE passMods)
    ELSE IF paginator = <<>>
    THEN /\ pages' = <<>>
         /\ passMods' = {}
    ELSE /\ pages' = pages
         /\ passMods' = passMods \cup Mods(data, o.data)

\* a handled line: lines 30-32 of run, and the history of the pass when tracked
Handled(p, o, track) ==
    /\ command' = p.command
    /\ args' = p.args
    /\ data' = o.data
    /\ paginator' = o.paginator
    /\ IF track THEN PassHistory(o) ELSE UNCHANGED <<pages, passMods>>
    /\ IF o.exc = "none"
       THEN /\ result' = o.ret
            /\ pc' = "loop"
            /\ err' = err
       ELSE /\ result' = NoneVal
            /\ pc' = "done"
            /\ err' = <<[exc |-> o.exc, msg |-> o.msg]>>
    /\ today' = today

\* CliApp.run: one turn of the while-loop, p being what parse_command made of
\* the line that input() returned.  When the loop is left run returns and its
\* locals are gone; command keeps the word that ended the session.
Turn(p, track) ==
    /\ pc = "loop"
    /\ IF p.exc # "none"
       THEN /\ pc' = "done"
            /\ err' = <<[exc |-> p.exc, msg |-> p.msg]>>
            /\ command' = <<>>
            /\ args' = <<>>
            /\ result' = NoneVal
            /\ UNCHANGED <<data, paginator, today, pages, passMods>>
       ELSE IF p.command \in StopWords
       THEN /\ pc' = "done"
            /\ command' = p.command
            /\ args' = <<>>
            /\ result' = NoneVal
            /\ UNCHANGED <<data, paginator, today, err, pages, passMods>>
       ELSE \E o \in {handle(data, paginator, today, p.command, p.args)} :
               Handled(p, o, track)

\* the book after the turn is within the bounds of the session's model
Bounded == WithinBounds(data', MaxRecords, MaxPhones)

\* the line made of a command word and its arguments, one blank between them
MkLine(word, as) == Join(<<" ">>, <<word>> \o as)

\* what parse_command makes of each of the lines `word as`, as in as_set
Parsed(words, as_set) == {parse_command(MkLine(w, as)) : w \in words, as \in as_set}

----------------------------------------------------------------------------
(* The words of the lines a session is given *)

NameA == <<"a", "l">>
NameB == <<"b", "o">>
Phone10 == <<"1", "2", "3", "4", "5", "6", "7", "8", "9", "0">>
Phone11 == Phone10 \o <<"1">>
Phone9 == SubSeq(Phone10, 1, 9)
PhonePlus12 == <<"+">> \o Phone10 \o <<"1", "2">>
DatePast == <<"0", "1", ".", "0", "1", ".", "2", "0", "0", "0">>
DateLeap == <<"2", "9", ".", "0", "2", ".", "2", "0", "2", "4">>
DateFuture == <<"0", "1", ".", "0", "1", ".", "2", "9", "9", "9">>
DateImpossible == <<"3", "1", ".", "0", "2", ".", "2", "0", "0", "0">>
DateLoose == <<"1", ".", "1", ".", "2", "0", "0", "0">>
UnknownWord == <<"z", "z">>
NameC == <<"c", "y">>

\* the day the session runs on
Todays == {Date(2025, 3, 1)}

Init ==
    /\ data = <<>>
    /\ paginator = <<>>
    /\ today \in Todays
    /\ pc = "loop"
    /\ command = <<>>
    /\ args = <<>>
    /\ result = NoneVal
    /\ err = <<>>
    /\ pages = <<>>
    /\ passMods = {}

----------------------------------------------------------------------------
(* Spec: a session of every command, over two names *)

Names == {NameA, NameB}

AddArgs ==
    {<<>>, <<Phone9>>, <<Phone9, Phone10>>, <<NameA, Phone10, DatePast, NameB>>}
    \cup {<<n>> : n \in Names}
    \cup {<<n, t>> : n \in Names, t \in {Phone10, Phone9, DatePast, DateLeap, DateFuture, DateImpossible}}
    \cup {<<n, ph, bd>> : n \in Names, ph \in {Phone10, Phone9}, bd \in {DatePast, DateFuture}}
    \cup {<<Phone9, Phone10, DatePast>>}
    \cup {<<NameA, Phone10, bd>> : bd \in {DateImpossible, DateLoose}}

DeleteArgs ==
    {<<>>, <<NameA, Phone10, Phone10>>}
    \cup {<<n>> : n \in Names}
    \cup {<<n, ph>> : n \in Names, ph \in {Phone10, Phone11}}

ChangeArgs ==
    {<<NameA, Phone10>>}
    \cup {<<n, old, new>> : n \in Names, old \in {Phone10, Phone11}, new \in {Phone10, Phone9}}

ShowArgs == {<<>>, <<AllText>>, <<PageText>>} \cup {<<n>> : n \in Names}

HelloInputs == Parsed({HelloWord, <<"H", "e", "l", "L", "O">>}, {<<>>, <<NameA>>})
HelpInputs == Parsed({HelpWord}, {<<>>, <<NameA>>})
AddInputs == Parsed({AddWord}, AddArgs)
DeleteInputs == Parsed({DeleteWord}, DeleteArgs)
ChangeInputs == Parsed({ChangeWord}, ChangeArgs)
ShowInputs == Parsed({ShowWord}, ShowArgs)
UnknownInputs == Parsed({UnknownWord, NameA}, {<<>>})
GoodbyeInputs == Parsed({GoodbyeWord, CloseWord, <<"E", "x", "i", "t">>}, {<<>>, <<NameA>>})
BlankInputs == {parse_command(line) : line \in {<<>>, <<" ">>, <<" ", " ">>}}

Hello == \E p \in HelloInputs : Turn(p, FALSE) /\ Bounded

Help == \E p \in HelpInputs : Turn(p, FALSE) /\ Bounded

Add == \E p \in AddInputs : Turn(p, FALSE) /\ Bounded

Delete == \E p \in DeleteInputs : Turn(p, FALSE) /\ Bounded

Change == \E p \in ChangeInputs : Turn(p, FALSE) /\ Bounded

Show == \E p \in ShowInputs : Turn(p, FALSE) /\ Bounded

Unknown == \E p \in UnknownInputs : Turn(p, FALSE) /\ Bounded

Goodbye == \E p \in GoodbyeInputs : Turn(p, FALSE) /\ Bounded

Blank == \E p \in BlankInputs : Turn(p, FALSE) /\ Bounded

Next == Hello \/ Help \/ Add \/ Delete \/ Change \/ Show \/ Unknown \/ Goodbye \/ Blank

Spec == Init /\ [][Next]_vars

----------------------------------------------------------------------------
(* SpecPhones: sessions that fill and edit the phones of one record, beside a
   second record that holds a birthday *)

PhoneWords == {Phone10, PhonePlus12}

PhoneAddInputs ==
    Parsed({AddWord}, {<<NameA>>, <<NameA, DatePast>>, <<NameB, DatePast>>}
                      \cup {<<NameA, ph>> : ph \in PhoneWords})

PhoneChangeInputs ==
    Parsed({ChangeWord},
           {<<NameA, old, new>> : old \in PhoneWords, new \in PhoneWords \cup {Phone9}})

PhoneDeleteInputs ==
    Parsed({DeleteWord}, {<<NameA>>, <<NameB>>} \cup {<<NameA, ph>> : ph \in PhoneWords})

AddPhone ==
    \E p \in PhoneAddInputs : Turn(p, FALSE) /\ PhonesWithin(data', MaxStoredPhones)

ChangePhone ==
    \E p \in PhoneChangeInputs : Turn(p, FALSE) /\ PhonesWithin(data', MaxStoredPhones)

DeletePhone ==
    \E p \in PhoneDeleteInputs : Turn(p, FALSE) /\ PhonesWithin(data', MaxStoredPhones)

NextPhones == AddPhone \/ ChangePhone \/ DeletePhone

SpecPhones == Init /\ [][NextPhones]_vars

----------------------------------------------------------------------------
(* SpecPage: sessions that page through a book while records are added, given a
   birthday, and deleted; the history of each pass is kept *)

PageNames == {NameA, NameB, NameC}

PageAddInputs ==
    Parsed({AddWord}, {<<n>> : n \in PageNames} \cup {<<NameC, DateLeap>>})

PageDeleteInputs == Parsed({DeleteWord}, {<<n>> : n \in PageNames})

PageShowInputs == Parsed({ShowWord}, {<<PageText>>})

PageAdd == \E p \in PageAddInputs : pc = "loop" /\ Turn(p, TRUE)

PageDelete == \E p \in PageDeleteInputs : pc = "loop" /\ Turn(p, TRUE)

PageShow == \E p \in PageShowInputs : pc = "loop" /\ Turn(p, TRUE)

NextPage == PageAdd \/ PageDelete \/ PageShow

SpecPage == Init /\ [][NextPage]_vars

----------------------------------------------------------------------------
(* SpecPhone: sessions that offer one record every phone string of a family: an
   optional `+`, a run of digits, an optional letter; and runs with a `+` inside *)

\* the first n characters of 1234567890123...
DigitRun(n) == [i \in 1..n |-> DigitChars[(i % 10) + 1]]

PhoneStrings ==
    ({pre \o DigitRun(n) \o suf :
         pre \in {<<>>, <<"+">>}, n \in 0..MaxDigits, suf \in {<<>>, <<"a">>}}
     \cup {DigitRun(6) \o <<"+">> \o DigitRun(n) : n \in {4, 6}}) \ {<<>>}

OfferInputs == Parsed({AddWord}, {<<NameA, s, DatePast>> : s \in PhoneStrings})

RetractInputs == Parsed({DeleteWord}, {<<NameA>>})

Offer == \E p \in OfferInputs : pc = "loop" /\ Turn(p, FALSE)

Retract == \E p \in RetractInputs : pc = "loop" /\ Turn(p, FALSE)

NextPhone == Offer \/ Retract

SpecPhone == Init /\ [][NextPhone]_vars

----------------------------------------------------------------------------
(* SpecShow: sessions that build records, one of them under each keyword of
   show as its name, and show them *)

ShowNames == {NameA, AllText, PageText}

ShownAddInputs ==
    Parsed({AddWord}, {<<n>> : n \in ShowNames}
                      \cup {<<n, ph>> : n \in ShowNames, ph \in PhoneWords}
                      \cup {<<NameA, DatePast>>})

ShownShowInputs == Parsed({ShowWord}, {<<n>> : n \in ShowNames})

ShownDeleteInputs == Parsed({DeleteWord}, {<<n>> : n \in ShowNames})

AddShown ==
    \E p \in ShownAddInputs :
        Turn(p, FALSE) /\ WithinBounds(data', MaxShowRecords, MaxShowPhones)

ShowShown ==
    \E p \in ShownShowInputs :
        Turn(p, FALSE) /\ WithinBounds(data', MaxShowRecords, MaxShowPhones)

DeleteShown ==
    \E p \in ShownDeleteInputs :
        Turn(p, FALSE) /\ WithinBounds(data', MaxShowRecords, MaxShowPhones)

NextShow == AddShown \/ ShowShown \/ DeleteShown

SpecShow == Init /\ [][NextShow]_vars

----------------------------------------------------------------------------
(* SpecCountdown: sessions on one of several days of three years, one of them a
   leap year, that give one record a birthday and show it *)

\* the days of a year the sessions run on and the birthdays fall on
MonthDays == {<<1, 1>>, <<2, 28>>, <<2, 29>>, <<3, 1>>, <<12, 31>>}

DaysIn(years) ==
    {Date(y, md[1], md[2]) : y \in years, md \in MonthDays}

CountdownDays == {a \in DaysIn(2023..2025) : ValidDate(a.y, a.m, a.d)}

BirthDays == {a \in DaysIn(2000..2001) : ValidDate(a.y, a.m, a.d)}

\* a date written dd.mm.yyyy
DateText(a) == Pad(a.d, 2) \o <<".">> \o Pad(a.m, 2) \o <<".">> \o Pad(a.y, 4)

InitCountdown ==
    /\ data = <<>>
    /\ paginator = <<>>
    /\ today \in CountdownDays
    /\ pc = "loop"
    /\ command = <<>>
    /\ args = <<>>
    /\ result = NoneVal
    /\ err = <<>>
    /\ pages = <<>>
    /\ passMods = {}

BornInputs == Parsed({AddWord}, {<<NameA, DateText(a)>> : a \in BirthDays})

CountInputs == Parsed({ShowWord}, {<<NameA>>})

Born == \E p \in BornInputs : pc = "loop" /\ Turn(p, FALSE)

Count == \E p \in CountInputs : pc = "loop" /\ Turn(p, FALSE)

NextCountdown == Born \/ Count

SpecCountdown == InitCountdown /\ [][NextCountdown]_vars

----------------------------------------------------------------------------
(* Properties *)

\* the value handle returns for an exception of the ValueError kind with text t
ValueErrorOf(t) == Str(<<ValuePrefix>> \o t)

\* a returned value that is an error message of the ValueError kind
IsValueError(ret) == ~ret.none /\ Len(ret.text) >= 1 /\ ret.text[1] = ValuePrefix

\* token is a birthday that three-argument add accepts on the day now
AcceptedBirthday(token, now) ==
    strptime(token).exc = "none" /\ ~DateLT(now, strptime(token).date)

\* the two shapes of a phone: an optional `+` and exactly 12 digits, or exactly 10
\* digits, and nothing else
TwoShapes(s) ==
    \/ Len(s) = 13 /\ s[1] = "+" /\ \A i \in 2..13 : s[i] \in Digits
    \/ Len(s) \in {10, 12} /\ \A i \in 1..Len(s) : s[i] \in Digits

\* seq without the first of its elements equal to x
WithoutFirst(seq, x) ==
    LET hits == {i \in 1..Len(seq) : seq[i] = x}
        first == CHOOSE i \in hits : \A j \in hits : i <= j
    IN [k \in 1..(Len(seq) - 1) |-> IF k < first THEN seq[k] ELSE seq[k + 1]]

\* the turn just taken dispatched `word` with n arguments
Dispatched(word, n) == pc' = "loop" /\ command' = word /\ Len(args') = n

\* C1 as stated: `add name` and `add name phone birthday` on a name that is a key
\* of the book always return the duplicate-key message and leave the book as it was.
C1_DuplicateAlwaysReported ==
    [][(\E n \in {1, 3} : Dispatched(AddWord, n)) /\ Contains(data, args'[1])
        => result' = ValueErrorOf(DuplicateText) /\ data' = data]_vars

\* C1, amended: on a name that is a key of the book, `add name` returns the
\* duplicate-key message; `add name phone birthday` returns it whenever the phone
\* has one of the two shapes and the birthday is a date not after today, and in
\* every other case returns either it or the message of the argument that was
\* refused (the phone first); the result is always an error message of the
\* ValueError kind and the book is left as it was.
C1_DuplicateRejected ==
    [][(\E n \in {1, 3} : Dispatched(AddWord, n)) /\ Contains(data, args'[1])
        => /\ data' = data
           /\ IsValueError(result')
           /\ Len(args') = 1 => result' = ValueErrorOf(DuplicateText)
           /\ Len(args') = 3 =>
                 /\ (TwoShapes(args'[2]) /\ AcceptedBirthday(args'[3], today))
                       => result' = ValueErrorOf(DuplicateText)
                 /\ result' # ValueErrorOf(DuplicateText)
                       => \/ /\ ~TwoShapes(args'[2])
                             /\ result' = ValueErrorOf(InvalidPhoneText)
                          \/ /\ ~AcceptedBirthday(args'[3], today)
                             /\ result' \in {ValueErrorOf(FutureBirthdayText),
                                             ValueErrorOf(strptime(args'[3]).msg)}]_vars

\* C1 witness: a three-argument add of a stored name was answered with the
\* duplicate-key message, and the stored record did not take the phone offered
C1_DuplicateSeen ==
    /\ pc = "loop" /\ command = AddWord /\ Len(args) = 3
    /\ result = ValueErrorOf(DuplicateText)
    /\ Contains(data, args[1])
    /\ GetItem(data, args[1]).phones = <<>>

\* the lines of Spec that reach the dispatcher
AllDispatched ==
    HelloInputs \cup HelpInputs \cup AddInputs \cup DeleteInputs \cup ChangeInputs
        \cup ShowInputs \cup UnknownInputs

\* C2: no exception leaves handle: the only exception run ever catches comes from
\* parse_command (no command was dispatched), and in every state handle returns
\* for every command and argument list of the session.
C2_NoEscape ==
    /\ err # <<>> => pc = "done" /\ command = <<>>
    /\ pc = "loop" =>
          \A p \in AllDispatched :
              handle(data, paginator, today, p.command, p.args).exc = "none"

\* C2 witness: delete, which is not decorated, raised KeyError and handle returned
\* the text made of it
C2_DeleteFailureReturned ==
    /\ pc = "loop" /\ err = <<>> /\ command = DeleteWord /\ Len(args) = 1
    /\ ~result.none /\ result.text[1] = UnknownPrefix

\* the kind of message an unknown command word gets in the current state
UnknownCommandKind == handle(data, paginator, today, UnknownWord, <<>>).ret.text[1]

\* C3 as stated: `delete name`, `delete name phone` and `change name old new` on a
\* name that is not in the book return a message whose kind is not the kind of an
\* unknown command, and leave the book as it was.
C3_AbsentNameIsNotFound ==
    [][(\/ Dispatched(DeleteWord, 1) \/ Dispatched(DeleteWord, 2)
        \/ Dispatched(ChangeWord, 3)) /\ ~Contains(data, args'[1])
        => /\ data' = data
           /\ ~result'.none
           /\ result'.text[1] # UnknownCommandKind]_vars

\* C4 as stated: add with no argument, or with four or more, returns a message of
\* the missing-argument kind and leaves the book as it was.
C4_AddArityIsMissingArgument ==
    [][pc' = "loop" /\ command' = AddWord /\ Len(args') \notin {1, 2, 3}
        => /\ data' = data
           /\ ~result'.none
           /\ result'.text[1] = MissingPrefix]_vars

\* C7: `delete name phone` on a record of the book that stores no phone equal to
\* the one given returns the phone-not-found message and changes no record.
C7_AbsentPhoneRejected ==
    [][(/\ Dispatched(DeleteWord, 2)
        /\ Contains(data, args'[1])
        /\ (\A i \in DOMAIN GetItem(data, args'[1]).phones :
               GetItem(data, args'[1]).phones[i] # args'[2]))
        => result' = ValueErrorOf(PhoneNotInListText) /\ data' = data]_vars

\* C7 witness: the phone-not-found message was returned for a record that stores
\* another phone
C7_AbsentPhoneSeen ==
    /\ pc = "loop" /\ command = DeleteWord /\ Len(args) = 2
    /\ result = ValueErrorOf(PhoneNotInListText)
    /\ Contains(data, args[1])
    /\ GetItem(data, args[1]).phones # <<>>

\* C10: `change name old new` on a record of the book: when no stored phone equals
\* old, the phone-not-found message is returned and the book is as it was; when old
\* is stored and new is refused by the phone validation, the validation message is
\* returned and the record holds its previous phones without the first one equal
\* to old; its birthday and every other record are as they were.
C10_ChangeWithoutRollback ==
    [][Dispatched(ChangeWord, 3) /\ Contains(data, args'[1])
        => LET rec == GetItem(data, args'[1])
               stored == \E i \in DOMAIN rec.phones : rec.phones[i] = args'[2]
           IN /\ ~stored
                    => result' = ValueErrorOf(PhoneNotInListText) /\ data' = data
              /\ (stored /\ ~is_valid(args'[3]))
                    => /\ result' = ValueErrorOf(InvalidPhoneText)
                       /\ Keys(data') = Keys(data)
                       /\ \A k \in DOMAIN data :
                             IF data[k].key = args'[1]
                             THEN data'[k].value =
                                     [rec EXCEPT !.phones = WithoutFirst(@, args'[2])]
                             ELSE data'[k] = data[k]]_vars

\* C10 witness: a change was refused for its new phone beside a second record, and
\* the record that holds a birthday is left with two phones, one of them equal to
\* old: only the first of two equal phones was removed, and it was not put back
C10_DeleteNotUndone ==
    /\ pc = "loop" /\ command = ChangeWord /\ Len(args) = 3
    /\ result = ValueErrorOf(InvalidPhoneText)
    /\ Len(data) = 2
    /\ Contains(data, args[1])
    /\ GetItem(data, args[1]).birthday # <<>>
    /\ Len(GetItem(data, args[1]).phones) = 2
    /\ GetItem(data, args[1]).phones[2] = args[2]

\* the turn just taken was `show page`
ShowedPage == Dispatched(ShowWord, 1) /\ args'[1] = PageText

\* the keys of the pages taken so far in the pass the cursor is in
TakenKeys == IF paginator = <<>> THEN <<>> ELSE Flatten([i \in DOMAIN pages |-> pages[i].keys])

\* the text of a page made of the records recs
PageOf(recs) == Str(Join(<<"\n">>, [i \in DOMAIN recs |-> RecordStr(recs[i], today).text]))

\* C5 as stated: while the book is not modified during a pass, each `show page`
\* returns the next PAGE_SIZE records in insertion order (fewer on the last page),
\* starting from the first on a fresh cursor; once every record was returned the
\* next call returns the end-of-book signal and leaves a fresh cursor, so that the
\* call after it returns the first page again (on an empty book, at once).
C5_OnePass ==
    [][ShowedPage /\ (paginator = <<>> \/ passMods = {})
        => LET from == Len(TakenKeys)
               to == IF from + PAGE_SIZE > Len(data) THEN Len(data) ELSE from + PAGE_SIZE
           IN IF from < Len(data)
              THEN /\ result' = PageOf(SubSeq(Values(data), from + 1, to))
                   /\ paginator' # <<>>
              ELSE /\ result' = Str(EndOfBook)
                   /\ paginator' = <<>>]_vars

\* C6 as stated: when a pass that has returned its first page ends with the
\* end-of-book signal and no record was deleted during it, every record added
\* during the pass was returned in one of its pages.
C6_LiveAdds ==
    [][(/\ ShowedPage
        /\ paginator # <<>>
        /\ result' = Str(EndOfBook)
        /\ pages # <<>> /\ pages[1].rendered
        /\ \A m \in passMods : m.kind # "delete")
        => \A m \in passMods :
              m.kind = "add"
                 => \E i \in DOMAIN pages :
                       /\ pages[i].rendered
                       /\ \E k \in DOMAIN pages[i].keys : pages[i].keys[k] = m.key]_vars

\* the line of a record that holds no birthday: its name, then its phones in order
LineOf(rec) ==
    <<"Name: ">> \o rec.name \o <<", phones: ">> \o Join(<<", ">>, rec.phones)

\* text begins with line
BeginsWith(text, line) ==
    Len(line) <= Len(text) /\ SubSeq(text, 1, Len(line)) = line

\* `add name phone` with a phone that is accepted puts it after the phones the
\* record of name holds (none when the record is new)
AddAppends ==
    (Dispatched(AddWord, 2) /\ is_valid(args'[2]) /\ NameMatch(args'[1]))
        => /\ result'.none
           /\ Contains(data', args'[1])
           /\ GetItem(data', args'[1]).phones =
                 Append(IF Contains(data, args'[1])
                        THEN GetItem(data, args'[1]).phones ELSE <<>>, args'[2])

C9_TwoShapesOnly ==
    [][Dispatched(AddWord, 3) /\ ~Contains(data, args'[1])
        => IF TwoShapes(args'[2])
           THEN /\ result'.none
                /\ Contains(data', args'[1])
                /\ GetItem(data', args'[1]).phones = <<args'[2]>>
           ELSE /\ result' = ValueErrorOf(InvalidPhoneText)
                /\ data' = data]_vars

\* token is written dd.mm.yyyy: ten characters, digits around two dots
DateShaped(token) ==
    /\ Len(token) = 10
    /\ token[3] = "." /\ token[6] = "."
    /\ \A i \in {1, 2, 4, 5, 7, 8, 9, 10} : token[i] \in Digits

\* the day a token written dd.mm.yyyy names
DateNamed(token) == Date(NumAt(token, 7, 4), NumAt(token, 4, 2), NumAt(token, 1, 2))

\* token names a day of the calendar that is not after now
RealDateUpTo(token, now) ==
    /\ DateShaped(token)
    /\ ValidDate(DateNamed(token).y, DateNamed(token).m, DateNamed(token).d)
    /\ ~DateLT(now, DateNamed(token))

\* d2 is d1 but for the record stored under name, which is rec
OnlyRecordSet(d1, d2, name, rec) ==
    /\ Keys(d2) = Keys(d1)
    /\ \A k \in DOMAIN d1 :
          IF d1[k].key = name THEN d2[k].value = rec ELSE d2[k] = d1[k]

\* C11: `add name token` on a name of the book never returns the duplicate-key
\* message and keeps the keys, their order and every other record; a token the
\* phone validation accepts is put after the record's phones; otherwise a token
\* written dd.mm.yyyy that names a real day not after today becomes the record's
\* one birthday, in place of any it had; otherwise a ValueError-kind message is
\* returned and the record is as it was.
C11_AddToExisting ==
    [][Dispatched(AddWord, 2) /\ Contains(data, args'[1])
        => LET rec == GetItem(data, args'[1])
               token == args'[2]
           IN /\ result' # ValueErrorOf(DuplicateText)
              /\ IF is_valid(token)
                 THEN /\ result'.none
                      /\ OnlyRecordSet(data, data', args'[1],
                                       [rec EXCEPT !.phones = Append(@, token)])
                 ELSE IF RealDateUpTo(token, today)
                 THEN /\ result'.none
                      /\ OnlyRecordSet(data, data', args'[1],
                                       [rec EXCEPT !.birthday = <<DateNamed(token)>>])
                 ELSE /\ IsValueError(result')
                      /\ data' = data]_vars

\* C11 witness: a two-argument add put a new birthday in place of another on a
\* record that is not the only one of the book
C11_BirthdayReplaced ==
    /\ pc = "loop" /\ command = AddWord /\ Len(args) = 2 /\ result.none
    /\ Len(data) = 2
    /\ args[2] = DateLeap
    /\ Contains(data, args[1])
    /\ GetItem(data, args[1]).birthday = <<DateNamed(DateLeap)>>
    /\ GetItem(data, args[1]).phones # <<>>

\* the kinds an error message of the dispatcher begins with
ErrorKinds == {MissingPrefix, UnknownPrefix, ValuePrefix}

\* C12: `show all` on a book of no record returns the no-contacts message, and
\* `show name`, for a name other than `all` and `page` that is not a key, returns
\* the no-such-contact message; neither begins with an error kind, and the book
\* and the pagination cursor are as they were.
C12_MissingDataAnswered ==
    [][Dispatched(ShowWord, 1)
        => /\ (args'[1] = AllText /\ data = <<>>) => result' = Str(NoContacts)
           /\ (args'[1] \notin {AllText, PageText} /\ ~Contains(data, args'[1]))
                 => result' = Str(NoSuchContact)
           /\ (\/ args'[1] = AllText /\ data = <<>>
               \/ args'[1] \notin {AllText, PageText} /\ ~Contains(data, args'[1]))
                 => /\ result'.text[1] \notin ErrorKinds
                    /\ data' = data
                    /\ paginator' = paginator]_vars

\* C12 witness: in the middle of a pagination pass over a book that holds a
\* record, a name that is not a key was shown and the cursor stayed where it was
C12_AbsentNameShown ==
    /\ pc = "loop" /\ command = ShowWord /\ Len(args) = 1
    /\ result = Str(NoSuchContact)
    /\ data # <<>> /\ ~Contains(data, args[1])
    /\ paginator # <<>>

\* the line of a record that holds a birthday, ending with the countdown text
LineWith(rec, countdown) ==
    Str(LineOf(rec) \o <<", birthday: ">> \o IsoFormat(rec.birthday[1])
                    \o <<", ">> \o countdown)

\* the countdown text of n days
DaysText(n) == <<"there are ">> \o IntStr(n) \o <<" days to this person's birthday">>

\* month and day of a fall before month and day of b
MonthDayLT(a, b) == a.m < b.m \/ (a.m = b.m /\ a.d < b.d)

\* C13 as stated: `show name` for a record with a birthday returns its line with
\* the today message when the birthday's month and day are today's, and otherwise
\* with a whole number of days between 1 and 366: the days until this year's
\* occurrence when that is after today, until next year's when this year's is
\* before today.
C13_Countdown ==
    [][(/\ Dispatched(ShowWord, 1)
        /\ Contains(data, args'[1])
        /\ GetItem(data, args'[1]).birthday # <<>>)
        => LET rec == GetItem(data, args'[1])
               b == rec.birthday[1]
               this == Date(today.y, b.m, b.d)
               next == Date(today.y + 1, b.m, b.d)
           IN IF b.m = today.m /\ b.d = today.d
              THEN result' = LineWith(rec, <<"Today is this person's birthday!">>)
              ELSE \E n \in 1..366 :
                      /\ result' = LineWith(rec, DaysText(n))
                      /\ (MonthDayLT(today, b) /\ ValidDate(this.y, this.m, this.d))
                            => n = Ordinal(this) - Ordinal(today)
                      /\ (MonthDayLT(b, today) /\ ValidDate(next.y, next.m, next.d))
                            => n = Ordinal(next) - Ordinal(today)]_vars

\* the last line returned an error message of one of the kinds
Failed(ret) == ~ret.none /\ Len(ret.text) >= 1 /\ ret.text[1] \in ErrorKinds

\* the keys without key, the order of the others kept
WithoutKey(keys, key) == SelectSeq(keys, LAMBDA k : k # key)

\* the turn just taken was an add of one to three arguments for a name that was
\* not a key, and left that name as the last key
AddedKey ==
    /\ pc' = "loop" /\ command' = AddWord /\ Len(args') \in {1, 2, 3}
    /\ ~Contains(data, args'[1])
    /\ Keys(data') = Append(Keys(data), args'[1])

\* the turn just taken was `delete name` for a key, returned nothing, and left the
\* other keys in their order
DeletedKey ==
    /\ Dispatched(DeleteWord, 1) /\ Contains(data, args'[1]) /\ result'.none
    /\ Keys(data') = WithoutKey(Keys(data), args'[1])

\* the commands that never change a record
ReadOnlyWords == {ShowWord, HelloWord, HelpWord, UnknownWord, NameA}

\* C14 as stated: the keys and their order change only by an add of a new name
\* that succeeds and by a `delete name` that succeeds; every command that fails
\* leaves them as they were; show, hello, help and unknown commands leave the
\* whole book as it was.
C14_OnlySuccessChanges ==
    [][/\ Keys(data') # Keys(data) => (AddedKey /\ result'.none) \/ DeletedKey
       /\ (pc' = "loop" /\ Failed(result')) => Keys(data') = Keys(data)
       /\ (pc' = "loop" /\ command' \in ReadOnlyWords) => data' = data]_vars

\* C14, amended: the keys and their order change only by an add of a new name,
\* which puts exactly that name last and either succeeds or is the two-argument
\* add returning a ValueError-kind message for its second token, and by a
\* `delete name` that succeeds, which removes exactly that key; a successful add
\* of a new name and a successful `delete name` of a key always change them so;
\* every other command, failing or not, leaves the keys and their order as they
\* were, and show, hello, help and unknown commands leave the whole book as it was.
C14_KeysFrame ==
    [][/\ Keys(data') # Keys(data)
             => \/ AddedKey /\ result'.none
                \/ AddedKey /\ Len(args') = 2 /\ IsValueError(result')
                \/ DeletedKey
       /\ (/\ pc' = "loop" /\ command' = AddWord /\ Len(args') \in {1, 2, 3}
           /\ ~Contains(data, args'[1]) /\ result'.none) => AddedKey
       /\ (Dispatched(DeleteWord, 1) /\ Contains(data, args'[1])) => DeletedKey
       /\ (pc' = "loop" /\ command' \notin {AddWord, DeleteWord})
             => Keys(data') = Keys(data)
       /\ (pc' = "loop" /\ command' \in ReadOnlyWords) => data' = data
       /\ pc' = "done" => data' = data]_vars

\* C14 witness: `delete name` returned nothing and took one of the two keys of the
\* book, the record of the other key being left with its phone
C14_KeyDeleted ==
    /\ pc = "loop" /\ command = DeleteWord /\ Len(args) = 1 /\ result.none
    /\ Len(data) = 1
    /\ args[1] = NameA
    /\ data[1].key = NameB
    /\ data[1].value.phones # <<>>

\* C15: a phone add that succeeds puts the phone after the stored ones, equal
\* ones included, so the sequence is longer by one; a `delete name phone` that
\* succeeds removes the first phone equal to the one given and nothing else; a
\* `change name old new` that succeeds leaves the previous phones without the
\* first one equal to old, and new after them, so the length is the same.
C15_PhoneSequence ==
    [][/\ AddAppends
       /\ (Dispatched(AddWord, 2) /\ is_valid(args'[2]) /\ Contains(data, args'[1]))
             => Len(GetItem(data', args'[1]).phones) =
                   Len(GetItem(data, args'[1]).phones) + 1
       /\ (Dispatched(DeleteWord, 2) /\ Contains(data, args'[1]) /\ result'.none)
             => LET rec == GetItem(data, args'[1])
                IN /\ OnlyRecordSet(data, data', args'[1],
                                    [rec EXCEPT !.phones = WithoutFirst(@, args'[2])])
                   /\ Len(GetItem(data', args'[1]).phones) = Len(rec.phones) - 1
       /\ (Dispatched(ChangeWord, 3) /\ Contains(data, args'[1]) /\ result'.none)
             => LET rec == GetItem(data, args'[1])
                IN /\ OnlyRecordSet(data, data', args'[1],
                                    [rec EXCEPT !.phones =
                                        Append(WithoutFirst(@, args'[2]), args'[3])])
                   /\ Len(GetItem(data', args'[1]).phones) = Len(rec.phones)]_vars

\* C15 witness: `delete name phone` succeeded on a record that held the phone
\* twice around another one; the later of the two equal phones is still stored,
\* after the other one
C15_LaterDuplicateStays ==
    /\ pc = "loop" /\ command = DeleteWord /\ Len(args) = 2 /\ result.none
    /\ Contains(data, args[1])
    /\ args[2] = Phone10
    /\ GetItem(data, args[1]).phones = <<PhonePlus12, Phone10>>

\* C16: `add name token` for a name that is not a key and that the name
\* validation accepts stores a record of that name after the records of the book,
\* which stay as they were, whatever the token is; when the token is neither
\* accepted by the phone validation nor a dd.mm.yyyy date of the calendar not after
\* today, a ValueError-kind message is returned and the stored record has no phone
\* and no birthday. `add name` for a key returns the duplicate-key message.
C16_CreatedBeforeClassified ==
    [][/\ (Dispatched(AddWord, 2) /\ ~Contains(data, args'[1]) /\ NameMatch(args'[1]))
             => /\ Len(data') = Len(data) + 1
                /\ SubSeq(data', 1, Len(data)) = data
                /\ data'[Len(data')].key = args'[1]
                /\ data'[Len(data')].value.name = args'[1]
                /\ (~is_valid(args'[2]) /\ ~RealDateUpTo(args'[2], today))
                      => /\ IsValueError(result')
                         /\ data'[Len(data')].value.phones = <<>>
                         /\ data'[Len(data')].value.birthday = <<>>
       /\ (Dispatched(AddWord, 1) /\ Contains(data, args'[1]))
             => result' = ValueErrorOf(DuplicateText) /\ data' = data]_vars

\* C16 witness: `add name token` with an impossible calendar date has just
\* returned a ValueError-kind message, and the record of name is the last of a
\* book of two, with no phone and no birthday, after a record that has a phone
C16_BareRecordLeft ==
    /\ pc = "loop" /\ command = AddWord /\ Len(args) = 2
    /\ args[2] = DateImpossible /\ IsValueError(result)
    /\ Len(data) = 2 /\ data[2].key = args[1]
    /\ data[2].value.phones = <<>> /\ data[2].value.birthday = <<>>
    /\ data[1].value.phones # <<>>

\* C17: `add name phone birthday` either stores, after the records of the book,
\* one record of that name with that one phone and that birthday and returns
\* nothing, or returns an error message and leaves the book as it was; and it
\* does the latter whenever the name is refused by the name validation or is a
\* key, the phone is refused by the phone validation, or the birthday is not a
\* day of the calendar written dd.mm.yyyy and not after today.
C17_AllOrNothing ==
    [][Dispatched(AddWord, 3)
        => /\ \/ Failed(result') /\ data' = data
              \/ /\ result'.none
                 /\ data' = Append(data,
                                   [key |-> args'[1],
                                    value |-> [name |-> args'[1],
                                               phones |-> <<args'[2]>>,
                                               birthday |-> <<strptime(args'[3]).date>>]])
           /\ (\/ ~NameMatch(args'[1]) \/ Contains(data, args'[1])
               \/ ~is_valid(args'[2])
               \/ ~RealDateUpTo(args'[3], today))
                 => Failed(result') /\ data' = data]_vars

\* C18: when `show page` returns the end-of-book signal for a pass, every record
\* that was in the book from the first `show page` of the pass on, neither added
\* nor deleted during it, was returned in one of the pages of the pass.
C18_NoSkip ==
    [][(ShowedPage /\ paginator # <<>> /\ result' = Str(EndOfBook))
        => \A k \in DOMAIN data :
              (\A m \in passMods : m.kind \in {"add", "delete"} => m.key # data[k].key)
                 => \E i \in DOMAIN pages :
                       /\ pages[i].rendered
                       /\ \E j \in DOMAIN pages[i].keys : pages[i].keys[j] = data[k].key]_vars

\* C19: in every state of a session the keys of the book are distinct and each
\* is the name of its record, a name the name validation accepts; every stored
\* phone is one the phone validation accepts; a record holds no birthday or one,
\* which is a day of the calendar not after today.
C19_StoredDataValid ==
    /\ \A i, j \in DOMAIN data : data[i].key = data[j].key => i = j
    /\ \A i \in DOMAIN data :
          LET rec == data[i].value
          IN /\ rec.name = data[i].key
             /\ NameMatch(rec.name)
             /\ \A k \in DOMAIN rec.phones : is_valid(rec.phones[k])
             /\ Len(rec.birthday) <= 1
             /\ \A k \in DOMAIN rec.birthday :
                   /\ ValidDate(rec.birthday[k].y, rec.birthday[k].m, rec.birthday[k].d)
                   /\ ~DateLT(today, rec.birthday[k])

\* C19 witness: a three-argument add with a refused phone has just returned a
\* ValueError-kind message for a name that is not a key, beside a record that
\* holds a phone and a birthday
C19_RefusedBesideStored ==
    /\ pc = "loop" /\ command = AddWord /\ Len(args) = 3
    /\ args[2] = Phone9 /\ IsValueError(result)
    /\ ~Contains(data, args[1])
    /\ Len(data) = 1
    /\ data[1].value.phones # <<>> /\ data[1].value.birthday # <<>>

\* C20: a session that has ended takes no further line, so the book stays as it
\* is.  A line ends the session exactly when its command word is goodbye, close
\* or exit in any case of letters, and then no handler has run (book, cursor and
\* result are untouched), or when it is empty or blank, which parse_command
\* refuses; every other line, whatever the dispatcher returned for it, error
\* messages included, leaves the session waiting for the next line.
C20_SessionLifetime ==
    [][/\ pc = "loop"
       /\ Goodbye => pc' = "done" /\ command' \in StopWords /\ err' = <<>>
       /\ Blank => pc' = "done" /\ command' = <<>> /\ err' # <<>>
       /\ pc' = "done" <=> (command' \in StopWords \/ command' = <<>>)
       /\ pc' = "done" => data' = data /\ paginator' = paginator /\ result' = NoneVal
       /\ err' # <<>> => command' = <<>> /\ err'[1].exc \in {"ValueError", "IndexError"}
       /\ (pc' = "loop" /\ Failed(result')) => command' \notin StopWords]_vars

\* C20 witness: the session has ended on the stop word exit, no exception having
\* left the loop, with two records in the book
C20_EndedOnStopWord ==
    /\ pc = "done" /\ command = ExitWord /\ err = <<>>
    /\ Len(data) = 2

====
